---- MODULE Spec2Model ----
(***************************************************************************)
(* State-machine model of streamlit_app.py: one Streamlit script run per   *)
(* page load / interaction, with the tracking session (the while loop)     *)
(* stepped at its I/O boundaries: read, detect, count+annotate, render,    *)
(* log, stop poll.  Confidences are in hundredths, raw box coordinates in  *)
(* tenths of a pixel (the detector returns floats, the script truncates    *)
(* them with int()).  The log file is a sequence of lines, a line a        *)
(* sequence of one-character strings.                                      *)
(*                                                                         *)
(* Left out: the debug table of the sidebar (lines 55-56, 92-96), which    *)
(* only displays, and the pixels of the frame (the model keeps the         *)
(* rectangles drawn on it).  The detector is free to return any boxes,     *)
(* also boxes below the conf it was called with.                           *)
(***************************************************************************)
EXTENDS Integers, Sequences, FiniteSets, TLC

\* ---------------------------------------------------------------- bounds
MaxRows   == 2      \* Spec: the frame source runs dry once the log holds this many rows
FewDet    == 1      \* Spec: raw detections per frame
MaxClock  == 1      \* wall clock, seconds after 2024-01-01 00:00:00
LongRows  == 4      \* SpecLong: rows the source allows (end of stream on the 5th read)
MaxDet    == 2      \* SpecCount: raw detections per frame
CountRows == 1      \* SpecCount: rows the source allows

\* ------------------------------------------------------ program constants
PersonClass == 0
DefaultConf == 45
DefaultArea == 8000
TailRows    == 10

\* slider positions the user moves between (both sliders keep their default)
ConfSteps == {DefaultConf, 90}
AreaSteps == {DefaultArea, 8500}

\* ------------------------------------------------------- detector outputs
\* raw xyxy in tenths of a pixel
LargeBox == << 0, 0, 2000, 1000 >>        \* 200 x 100 = 20000 px^2
EdgeBox  == << 9, 0, 1001, 800 >>         \* (0.9, 0.0, 100.1, 80.0): 8000 px^2 once truncated
SmallBox == << 100, 100, 350, 300 >>      \* 25 x 20 = 500 px^2

\* the boxes a detector call returns are drawn from these
Box ==
    { [cls |-> PersonClass, conf |-> 90, xyxy |-> LargeBox],
      [cls |-> PersonClass, conf |-> 60, xyxy |-> LargeBox],
      [cls |-> PersonClass, conf |-> 30, xyxy |-> LargeBox],
      [cls |-> PersonClass, conf |-> 90, xyxy |-> EdgeBox],
      [cls |-> PersonClass, conf |-> 90, xyxy |-> SmallBox],
      [cls |-> 1,           conf |-> 90, xyxy |-> LargeBox] }

SeqsUpTo(S, n) == UNION { [1..k -> S] : k \in 0..n }

\* ------------------------------------------------------------ pure helpers
\* int(v) of a float given in tenths: truncation toward zero
IntOf(v) == IF v >= 0 THEN v \div 10 ELSE -((-v) \div 10)

\* x1, y1, x2, y2 = map(int, box.xyxy[0])
XY(box) == << IntOf(box.xyxy[1]), IntOf(box.xyxy[2]),
              IntOf(box.xyxy[3]), IntOf(box.xyxy[4]) >>

\* area = (x2 - x1) * (y2 - y1)
Area(box) == (XY(box)[3] - XY(box)[1]) * (XY(box)[4] - XY(box)[2])

IsCountedNoArea(box, conf, minArea) ==
    /\ box.cls = PersonClass
    /\ box.conf >= conf

\* if cls == 0: ... if conf >= CONF_THRESHOLD and area >= MIN_AREA
IsCounted(box, conf, minArea) ==
    /\ box.cls = PersonClass
    /\ box.conf >= conf
    /\ Area(box) >= minArea

RECURSIVE CountPeople(_, _, _)
\* the for loop over results[0].boxes: people += 1 for every counted box
CountPeople(boxes, conf, minArea) ==
    IF boxes = <<>> THEN 0
    ELSE (IF IsCounted(Head(boxes), conf, minArea) THEN 1 ELSE 0)
         + CountPeople(Tail(boxes), conf, minArea)

RECURSIVE DrawBoxes(_, _, _)
\* cv2.rectangle / cv2.putText for every counted box, in detection order
DrawBoxes(boxes, conf, minArea) ==
    IF boxes = <<>> THEN <<>>
    ELSE (IF IsCounted(Head(boxes), conf, minArea)
            THEN << [xy |-> XY(Head(boxes)), label |-> Head(boxes).conf] >>
            ELSE <<>>)
         \o DrawBoxes(Tail(boxes), conf, minArea)

\* ------------------------------------------------------------- log file

DigitChar(d) == CASE d = 0 -> "0" [] d = 1 -> "1" [] d = 2 -> "2" [] d = 3 -> "3"
                  [] d = 4 -> "4" [] d = 5 -> "5" [] d = 6 -> "6" [] d = 7 -> "7"
                  [] d = 8 -> "8" [] d = 9 -> "9"

DigitVal(c) == CASE c = "0" -> 0 [] c = "1" -> 1 [] c = "2" -> 2 [] c = "3" -> 3
                 [] c = "4" -> 4 [] c = "5" -> 5 [] c = "6" -> 6 [] c = "7" -> 7
                 [] c = "8" -> 8 [] c = "9" -> 9

RECURSIVE Decimal(_)
\* str(n) of a non-negative integer, as to_csv writes the headcount cell
Decimal(n) == IF n < 10 THEN << DigitChar(n) >>
              ELSE Decimal(n \div 10) \o << DigitChar(n % 10) >>

\* %H, %M, %S: two digits, zero padded
Pad2(n) == << DigitChar((n \div 10) % 10), DigitChar(n % 10) >>

\* datetime.datetime.now().strftime("%Y-%m-%d %H:%M:%S"), t seconds into the day
Strftime(t) ==
    << "2", "0", "2", "4", "-", "0", "1", "-", "0", "1", " " >>
    \o Pad2(t \div 3600) \o << ":" >> \o Pad2((t \div 60) % 60)
    \o << ":" >> \o Pad2(t % 60)

\* the header line "timestamp,headcount"
HeaderLine ==
    << "t", "i", "m", "e", "s", "t", "a", "m", "p", ",",
       "h", "e", "a", "d", "c", "o", "u", "n", "t" >>

\* one CSV record: the cells joined by commas (no cell here needs quoting)
CsvLine(ts, n) == ts \o << "," >> \o Decimal(n)

\* pd.DataFrame(columns=[...]).to_csv(log_path, index=False): (re)creates the file
ToCsvCreate == << HeaderLine >>

ToCsvAppendWithHeader(file, ts, n) == file \o << HeaderLine, CsvLine(ts, n) >>

\* pd.DataFrame([[timestamp, people]], ...).to_csv(log_path, mode="a", header=False, index=False)
ToCsvAppend(file, ts, n) == Append(file, CsvLine(ts, n))

EnsureInitializedAlways(exists, file) == ToCsvCreate

\* if not os.path.exists(log_path): ... to_csv(log_path, index=False)
EnsureInitialized(exists, file) == IF ~exists THEN ToCsvCreate ELSE file

\* position of the first comma of a line (0 when there is none)
FirstComma(line) ==
    IF \E i \in 1..Len(line) : line[i] = ","
      THEN CHOOSE i \in 1..Len(line) :
             line[i] = "," /\ \A j \in 1..(i - 1) : line[j] # ","
      ELSE 0

RECURSIVE ParseInt(_)
\* int64 inference of the headcount column
ParseInt(cs) == IF cs = <<>> THEN 0
                ELSE 10 * ParseInt(SubSeq(cs, 1, Len(cs) - 1)) + DigitVal(cs[Len(cs)])

\* a cell made of digits only
AllDigits(cs) ==
    /\ cs # <<>>
    /\ \A i \in 1..Len(cs) :
         cs[i] \in {"0", "1", "2", "3", "4", "5", "6", "7", "8", "9"}

\* one data line split into the two header columns
ParseLine(line) ==
    LET k == FirstComma(line)
    IN  [timestamp |-> SubSeq(line, 1, k - 1),
         headcount |-> SubSeq(line, k + 1, Len(line))]

\* df = pd.read_csv(log_path): first line is the header, the rest are the rows;
\* the headcount column is int64 when every cell parses, text otherwise
ReadCsv(file) ==
    LET raw == [i \in 1..(Len(file) - 1) |-> ParseLine(file[i + 1])]
        numeric == \A i \in 1..Len(raw) : AllDigits(raw[i].headcount)
    IN  [i \in 1..Len(raw) |->
           [timestamp |-> raw[i].timestamp,
            headcount |-> IF numeric THEN ParseInt(raw[i].headcount)
                                     ELSE raw[i].headcount]]

\* df.tail(10)
DfTail(df) == IF Len(df) <= TailRows THEN df
              ELSE SubSeq(df, Len(df) - TailRows + 1, Len(df))

\* ------------------------------------------------------------------ state
VARIABLES
    sliderConf,      \* the confidence slider widget, as the user left it
    sliderArea,      \* the minimum-area slider widget
    CONF_THRESHOLD,  \* script variable assigned from the slider (line 21)
    MIN_AREA,        \* script variable assigned from the slider (line 22)
    logExists,       \* os.path.exists(log_path)
    logFile,         \* the lines of data/attendance_log.csv
    pc,              \* position of the script run
    camera,          \* this run's capture object: "none", "failed", "open", "released"
    stop,            \* the script variable stop
    results,         \* results[0].boxes of the last detector call
    people,          \* the script variable people
    drawn,           \* rectangles and labels drawn on the current frame
    frameDisplay,    \* rectangles on the frame frame_placeholder shows (-1: nothing yet)
    countDisplay,    \* what count_placeholder shows (-1: nothing yet)
    messages,        \* st.error / st.warning / st.success of this run
    logView,         \* what the Participation Log section rendered
    now,             \* the wall clock
    exc,             \* the exception that ended the run, "none" otherwise
    sessReads,       \* successful frame reads of this session
    sessRows,        \* rows this session appended
    sessPolls,       \* stop polls of line 105 this session
    rowCap,          \* environment: the frame source runs dry at this many log rows
    detCap,          \* environment: the most boxes one detector call returns
    trace            \* the steps of the current loop iteration, in order

vars == << sliderConf, sliderArea, CONF_THRESHOLD, MIN_AREA, logExists, logFile,
           pc, camera, stop, results, people, drawn, frameDisplay, countDisplay,
           messages, logView, now, exc, sessReads, sessRows, sessPolls,
           rowCap, detCap, trace >>

thresholdVars == << CONF_THRESHOLD, MIN_AREA >>
sliderVars    == << sliderConf, sliderArea >>
fileVars      == << logExists, logFile >>
frameVars     == << results, people, drawn >>
displayVars   == << frameDisplay, countDisplay >>
countVars     == << sessReads, sessRows, sessPolls >>
envVars       == << rowCap, detCap >>

LoopPcs == {"read", "detect", "log", "poll"}

InitWith(rows, dets) ==
    /\ rowCap = rows
    /\ detCap = dets
    /\ sessPolls = 0
    /\ sliderConf = DefaultConf
    /\ sliderArea = DefaultArea
    /\ CONF_THRESHOLD = DefaultConf
    /\ MIN_AREA = DefaultArea
    /\ logExists \in BOOLEAN
    /\ logFile = IF logExists THEN ToCsvCreate ELSE <<>>
    /\ pc = "idle"
    /\ camera = "none"
    /\ stop = FALSE
    /\ results = <<>>
    /\ people = 0
    /\ drawn = <<>>
    /\ frameDisplay = -1
    /\ countDisplay = -1
    /\ messages = {}
    /\ logView = [kind |-> "none", rows |-> 0]
    /\ now = 0
    /\ exc = "none"
    /\ sessReads = 0
    /\ sessRows = 0
    /\ trace = <<>>

\* sessions of a few frames with at most FewDet detections each
Init == InitWith(MaxRows, FewDet)

\* a long source in front of a detector that finds nothing
InitLong == InitWith(LongRows, 0)

\* a short source in front of a detector that returns up to MaxDet boxes
InitCount == InitWith(CountRows, MaxDet)

\* ---------------------------------------------------------------- actions
\* the user drags a slider; the widget holds the new value
UserMovesSlider ==
    /\ \E c \in ConfSteps, a \in AreaSteps :
         /\ << c, a >> # << sliderConf, sliderArea >>
         /\ sliderConf' = c
         /\ sliderArea' = a
    /\ UNCHANGED << thresholdVars, fileVars, pc, camera, stop, frameVars,
                    displayVars, messages, logView, now, exc, countVars, envVars, trace >>

\* results, people and the drawn frame are reassigned (lines 59, 65, 72) before
\* the next iteration reads them and nothing after line 102 reads them: once
\* the row is written they are dead, and the model forgets them
FrameLocalsDead ==
    /\ results' = <<>>
    /\ people' = 0
    /\ drawn' = <<>>

\* while camera.isOpened() and not stop
LoopTest(cam, stp) == IF cam = "open" /\ ~stp THEN "read" ELSE "release"

\* lines 15-45: a script run starts, top to bottom, up to "if start:"
ScriptStart ==
    /\ pc \in {"idle", "crashed"}
    /\ CONF_THRESHOLD' = sliderConf
    /\ MIN_AREA' = sliderArea
    /\ logFile' = EnsureInitialized(logExists, logFile)
    /\ logExists' = TRUE
    /\ \E start \in BOOLEAN : pc' = IF start THEN "open" ELSE "view"
    /\ stop' = FALSE
    /\ results' = <<>>
    /\ people' = 0
    /\ drawn' = <<>>
    /\ frameDisplay' = -1
    /\ countDisplay' = -1
    /\ messages' = {}
    /\ logView' = [kind |-> "none", rows |-> 0]
    /\ exc' = "none"
    /\ sessReads' = 0
    /\ sessRows' = 0
    /\ sessPolls' = 0
    /\ trace' = <<>>
    /\ camera' = "none"
    /\ UNCHANGED << sliderVars, now, envVars >>

OpenCameraEntersLoop(opened) ==
    /\ pc = "open"
    /\ camera' = IF opened THEN "open" ELSE "failed"
    /\ \E b \in BOOLEAN :
         /\ stop' = b
         /\ pc' = IF b THEN "release" ELSE "read"
    /\ UNCHANGED << sliderVars, thresholdVars, fileVars, frameVars, displayVars,
                    messages, logView, now, exc, countVars, envVars, trace >>

\* lines 48-58: cv2.VideoCapture(0), the isOpened check, the first Stop button
OpenCamera(opened) ==
    /\ pc = "open"
    /\ IF ~opened
         THEN /\ camera' = "failed"
              /\ messages' = messages \cup {"error"}
              /\ pc' = "view"
              /\ stop' = stop
         ELSE /\ camera' = "open"
              /\ messages' = messages
              /\ \E b \in BOOLEAN :
                   /\ stop' = b
                   /\ pc' = LoopTest("open", b)
    /\ UNCHANGED << sliderVars, thresholdVars, fileVars, frameVars, displayVars,
                    logView, now, exc, countVars, envVars, trace >>

\* the model's frame source still has a frame to give
FramesLeft == Len(logFile) - 1 < rowCap

ReadFrameLogsOnFailure(ret) ==
    /\ pc = "read"
    /\ IF ~ret
         THEN /\ messages' = messages \cup {"warning"}
              /\ pc' = "release"
              /\ logFile' = ToCsvAppend(logFile, Strftime(now), people)
              /\ UNCHANGED sessReads
              /\ sessRows' = sessRows + 1
              /\ trace' = << "read" >>
         ELSE /\ FramesLeft
              /\ sessReads' = sessReads + 1
              /\ messages' = messages
              /\ pc' = "detect"
              /\ trace' = << "read" >>
              /\ UNCHANGED << logFile, sessRows >>
    /\ UNCHANGED << sliderVars, thresholdVars, logExists, camera, stop,
                    frameVars, displayVars, logView, now, exc, sessPolls, envVars >>

\* lines 59-62: ret, frame = camera.read(); warning and break when not ret
ReadFrame(ret) ==
    /\ pc = "read"
    /\ IF ~ret
         THEN /\ messages' = messages \cup {"warning"}
              /\ pc' = "release"
              /\ UNCHANGED sessReads
         ELSE /\ FramesLeft
              /\ sessReads' = sessReads + 1
              /\ messages' = messages
              /\ pc' = "detect"
    /\ trace' = << "read" >>
    /\ UNCHANGED << sliderVars, thresholdVars, fileVars, camera, stop,
                    frameVars, displayVars, logView, now, exc, sessRows, sessPolls,
                    envVars >>

DetectFailsLogsZero ==
    /\ pc = "detect"
    /\ results' = <<>>
    /\ logFile' = ToCsvAppend(logFile, Strftime(now), 0)
    /\ sessRows' = sessRows + 1
    /\ pc' = "crashed"
    /\ exc' = "InferenceFailure"
    /\ trace' = Append(trace, "detect")
    /\ UNCHANGED << sliderVars, thresholdVars, logExists, camera, stop, people,
                    drawn, displayVars, messages, logView, now, sessReads, sessPolls,
                    envVars >>

\* line 65 raising: nothing in the script catches it, the run ends there
DetectFails ==
    /\ pc = "detect"
    /\ pc' = "crashed"
    /\ exc' = "InferenceFailure"
    /\ trace' = Append(trace, "detect")
    /\ UNCHANGED << sliderVars, thresholdVars, fileVars, camera, stop, frameVars,
                    displayVars, messages, logView, now, countVars, envVars >>

\* lines 65-89, the detector returning: results = model(frame, ...), the for
\* loop that filters, counts and annotates, then frame_placeholder.image(...)
\* and count_placeholder.metric(..., people).  No input arrives in between.
DetectCountRender ==
    /\ pc = "detect"
    /\ \E boxes \in SeqsUpTo(Box, detCap) :
         LET n == CountPeople(boxes, CONF_THRESHOLD, MIN_AREA)
             d == DrawBoxes(boxes, CONF_THRESHOLD, MIN_AREA)
         IN  /\ results' = boxes
             /\ people' = n
             /\ drawn' = d
             /\ frameDisplay' = Len(d)
             /\ countDisplay' = n
    /\ pc' = "log"
    /\ trace' = trace \o << "detect", "filter", "annotate", "render" >>
    /\ UNCHANGED << sliderVars, thresholdVars, fileVars, camera, stop,
                    messages, logView, now, exc, countVars, envVars >>

\* lines 99-102: timestamp = now().strftime(...); one row appended to the log
LogRow ==
    /\ pc = "log"
    /\ \E t \in now..MaxClock :
         /\ now' = t
         /\ logFile' = ToCsvAppend(logFile, Strftime(t), people)
    /\ sessRows' = sessRows + 1
    /\ pc' = "poll"
    /\ trace' = Append(trace, "log")
    /\ FrameLocalsDead
    /\ UNCHANGED << sliderVars, thresholdVars, logExists, camera, stop,
                    displayVars, messages, logView, exc, sessReads, sessPolls, envVars >>

\* lines 100-102 raising (disk full, permission denied): nothing catches it
LogRowFails ==
    /\ pc = "log"
    /\ \E t \in now..MaxClock : now' = t
    /\ pc' = "crashed"
    /\ exc' = "LogWriteFailure"
    /\ trace' = Append(trace, "log")
    /\ FrameLocalsDead
    /\ UNCHANGED << sliderVars, thresholdVars, fileVars, camera, stop,
                    displayVars, messages, logView, countVars, envVars >>

PollStopIgnored(pressed) ==
    /\ pc = "poll"
    /\ stop' = pressed
    /\ pc' = "read"
    /\ trace' = Append(trace, "poll")
    /\ sessPolls' = sessPolls + 1
    /\ UNCHANGED << sliderVars, thresholdVars, fileVars, camera, frameVars,
                    displayVars, messages, logView, now, exc, sessReads, sessRows,
                    envVars >>

\* line 105, then the loop condition of line 58
PollStop(pressed) ==
    /\ pc = "poll"
    /\ stop' = pressed
    /\ pc' = LoopTest(camera, pressed)
    /\ trace' = Append(trace, "poll")
    /\ sessPolls' = sessPolls + 1
    /\ UNCHANGED << sliderVars, thresholdVars, fileVars, camera, frameVars,
                    displayVars, messages, logView, now, exc, sessReads, sessRows,
                    envVars >>

\* lines 107-108: camera.release(); st.success(...)
Release ==
    /\ pc = "release"
    /\ camera' = "released"
    /\ messages' = messages \cup {"success"}
    /\ pc' = "view"
    /\ UNCHANGED << sliderVars, thresholdVars, fileVars, stop, frameVars,
                    displayVars, logView, now, exc, countVars, envVars, trace >>

\* lines 111-120: the Participation Log section, which ends the script run
ViewLogs ==
    /\ pc = "view"
    /\ logView' =
         IF logExists
           THEN LET df == ReadCsv(logFile)
                IN  IF df # <<>>
                      THEN [kind |-> "chart", rows |-> Len(DfTail(df))]
                      ELSE [kind |-> "info", rows |-> 0]
           ELSE [kind |-> "info", rows |-> 0]
    /\ pc' = "idle"
    /\ UNCHANGED << sliderVars, thresholdVars, fileVars, camera, stop, frameVars,
                    displayVars, messages, now, exc, countVars, envVars, trace >>

Next ==
    \/ UserMovesSlider
    \/ ScriptStart
    \/ \E opened \in BOOLEAN : OpenCamera(opened)
    \/ \E ret \in BOOLEAN : ReadFrame(ret)
    \/ DetectCountRender
    \/ DetectFails
    \/ LogRow
    \/ LogRowFails
    \/ \E pressed \in BOOLEAN : PollStop(pressed)
    \/ Release
    \/ ViewLogs

Spec == Init /\ [][Next]_vars

SpecLong == InitLong /\ [][Next]_vars

SpecCount == InitCount /\ [][Next]_vars

TypeOK ==
    /\ pc \in {"idle", "open", "release", "view", "crashed"} \cup LoopPcs
    /\ camera \in {"none", "failed", "open", "released"}
    /\ people \in 0..detCap

\* ------------------------------------------------------------ properties
\* the rows read back from the log, and the last of them
Rows(file) == ReadCsv(file)
LastRow(file) == Rows(file)[Len(Rows(file))]

\* the counting policy as the specification words it: the detections of the
\* person class with confidence >= conf and area (x2-x1)*(y2-y1) >= minArea
Qualifying(boxes, conf, minArea) ==
    { i \in 1..Len(boxes) :
        /\ boxes[i].cls = 0
        /\ boxes[i].conf >= conf
        /\ (XY(boxes[i])[3] - XY(boxes[i])[1]) * (XY(boxes[i])[4] - XY(boxes[i])[2])
             >= minArea }

DetectStep  == pc = "detect" /\ pc' = "log"
AppendStep  == pc = "log" /\ pc' = "poll"
StartStep   == pc \in {"idle", "crashed"} /\ pc' \notin {"idle", "crashed"}

HeaderOnceFirst(file) ==
    /\ Len(file) >= 1
    /\ file[1] = HeaderLine
    /\ \A i \in 2..Len(file) : file[i] # HeaderLine

IterOrder == << "read", "detect", "filter", "annotate", "render", "log", "poll" >>

IsPrefix(s, t) == Len(s) <= Len(t) /\ s = SubSeq(t, 1, Len(s))

\* C1: the headcount displayed for a frame, and the headcount of the row logged
\* for it, is the number of person detections of that frame that meet both the
\* confidence and the minimum-area threshold (0 for no detections).
C1_HeadcountIsQualifyingCount ==
    /\ [](pc = "log" =>
            /\ countDisplay = Cardinality(Qualifying(results, CONF_THRESHOLD, MIN_AREA))
            /\ frameDisplay = countDisplay)
    /\ [][AppendStep =>
            LastRow(logFile').headcount
              = Cardinality(Qualifying(results, CONF_THRESHOLD, MIN_AREA))]_vars

\* a displayed frame with several detections, one of them a person failing a
\* threshold, one counted
C1_Witness ==
    /\ pc = "log"
    /\ Len(results) = MaxDet
    /\ countDisplay = 1
    /\ \E i \in 1..Len(results) :
         results[i].cls = PersonClass /\ i \notin Qualifying(results, CONF_THRESHOLD, MIN_AREA)

\* C2 (as claimed): every frame is counted with the slider values current at the
\* moment the frame is evaluated.
C2_ThresholdsReadFresh ==
    [][DetectStep =>
         people' = Cardinality(Qualifying(results', sliderConf, sliderArea))]_vars

\* C3 (as claimed): no session has ended, by any path, with the frame source
\* still held.
C3_SourceReleasedOnEveryExit ==
    pc \in {"view", "idle", "crashed"} => camera # "open"

\* C4: when the frame source cannot be opened, an error is shown, no frame is
\* read, the detector is not invoked, no row is appended, and the run goes on to
\* render the historical log and returns to idle.
C4_OpenFailureNeverRuns ==
    camera = "failed" =>
        /\ "error" \in messages
        /\ pc \in {"view", "idle"}
        /\ sessReads = 0
        /\ sessRows = 0
        /\ sessPolls = 0
        /\ trace = <<>>
        /\ countDisplay = -1
        /\ results = <<>>
        /\ (pc = "idle" => logView.kind \in {"chart", "info"})

\* the open failed in a run that then charted rows of an earlier session
C4_Witness ==
    /\ camera = "failed"
    /\ pc = "idle"
    /\ logView.kind = "chart"
    /\ logView.rows >= 1

\* C5: a session that ends on a failed read after n successful reads, with no
\* stop, has completed exactly n iterations and appended exactly n rows, and it
\* ends released with a warning; rows never outnumber the frames read.
C5_EndOfStreamAfterNRows ==
    /\ sessRows <= sessReads
    /\ ("warning" \in messages =>
          /\ ~stop
          /\ sessRows = sessReads
          /\ sessPolls = sessReads
          /\ pc \in {"release", "view", "idle"}
          /\ (pc # "release" => camera = "released" /\ "success" \in messages))

\* end of stream on the 5th read: 4 iterations, 4 rows
C5_Witness ==
    /\ "warning" \in messages
    /\ pc = "idle"
    /\ sessReads = LongRows
    /\ sessRows = LongRows
    /\ Len(logFile) >= LongRows + 1

\* C6: log initialisation writes the header-only file when the file is absent
\* and leaves an existing file exactly as it is, so the header is always the
\* first line and appears once.
C6_InitIdempotent ==
    /\ [](logExists => HeaderOnceFirst(logFile))
    /\ [][StartStep =>
            /\ logExists'
            /\ logFile' = IF logExists THEN logFile ELSE << HeaderLine >>]_vars

\* a run that started on a file already holding rows and appended nothing
C6_Witness ==
    /\ pc = "view"
    /\ sessRows = 0
    /\ Len(logFile) >= 3

\* C7: after an append the rows read back are the earlier rows, unchanged and in
\* order, followed by the new row; the file grows by one line and gains no header.
C7_AppendRoundTrip ==
    [][AppendStep =>
         /\ Rows(logFile') = Append(Rows(logFile),
                                    [timestamp |-> Strftime(now'), headcount |-> people])
         /\ Len(logFile') = Len(logFile) + 1
         /\ HeaderOnceFirst(logFile')]_vars

\* a row appended behind an earlier row with a different timestamp and headcount
C7_Witness ==
    /\ pc = "poll"
    /\ Len(logFile) >= 3
    /\ LastRow(logFile).headcount >= 1
    /\ Rows(logFile)[1].timestamp # LastRow(logFile).timestamp
    /\ Rows(logFile)[1].headcount # LastRow(logFile).headcount

\* C8 (as claimed): a failing log append is surfaced as a warning and the loop
\* goes on to the stop check.
C8_LogFailureContinues ==
    [][(pc = "log" /\ exc' = "LogWriteFailure") =>
         (pc' = "poll" /\ "warning" \in messages')]_vars

\* C9: a failing detector call writes nothing to the log, neither then nor later
\* in that run, and a row is only ever appended by an iteration that went through
\* detection, counting and rendering.
C9_NoRowForFailedFrame ==
    /\ [](exc = "InferenceFailure" => pc = "crashed" /\ sessRows = sessReads - 1)
    /\ [][(pc = "detect" /\ pc' = "crashed") => logFile' = logFile]_vars
    /\ [][(logExists /\ logFile' # logFile) =>
            /\ pc = "log"
            /\ trace = SubSeq(IterOrder, 1, 5)]_vars

\* the detector failed on a later frame of a session that had logged a row
C9_Witness ==
    /\ exc = "InferenceFailure"
    /\ sessRows >= 1
    /\ Len(logFile) = sessRows + 1

\* C10: an iteration runs read, detect, filter, annotate, render, log, stop poll
\* in that order with one poll per iteration; a stop seen by the poll finds the
\* iteration's row in the log, is followed by no read and no append, leads to
\* release and the success notice, and the loop is entered only by a start that
\* opens the source.
C10_SequentialStopIsTerminal ==
    /\ [](/\ IsPrefix(trace, IterOrder)
          /\ sessPolls <= sessReads
          /\ (pc = "read" => sessPolls = sessReads)
          /\ (stop => pc \in {"release", "view", "idle"})
          /\ (stop /\ pc \in {"view", "idle"} =>
                camera = "released" /\ "success" \in messages))
    /\ [][(pc = "poll" /\ stop') =>
            /\ pc' = "release"
            /\ sessRows = sessReads
            /\ LastRow(logFile).headcount = countDisplay]_vars
    /\ [][(stop /\ stop') =>
            logFile' = logFile /\ sessReads' = sessReads]_vars
    /\ [][(pc \notin LoopPcs /\ pc' \in LoopPcs) =>
            pc = "open" /\ camera' = "open"]_vars

\* a session stopped by the user after its second frame was logged
C10_Witness ==
    /\ stop
    /\ pc = "idle"
    /\ sessRows = 2
    /\ sessPolls = 2
    /\ camera = "released"

====
